---- MODULE Spec2Model ----
(***************************************************************************)
(* A model of pygrabber/dshow_graph.py: the FilterGraph registry           *)
(* (self.filters), the native DirectShow graph it drives (filters in the   *)
(* graph, pin connections, run state), the sample grabber callback and     *)
(* the system device enumerator.                                           *)
(*                                                                         *)
(* Every operation is one action.  The body of an operation is written as  *)
(* a chain of steps over a record `s' (the "frame" of the call) holding    *)
(* the state the call can change plus the exception, if any, that ended    *)
(* it; a step applied to a frame that already carries an exception is a    *)
(* no-op, which is how Python propagates the exception to the caller.      *)
(***************************************************************************)
EXTENDS Integers, Sequences, FiniteSets, TLC

(***************************************************************************)
(* Bounds of the model.                                                    *)
(***************************************************************************)
MaxFaults == 1        \* native calls the environment makes fail, per behaviour
MaxMux == 1           \* muxer objects alive at the same time
MaxDevices == 3       \* devices of a category in the enumeration specification
MaxGrabs == 3         \* grab_frame calls counted in the still-frame specification
MaxExtent == 4        \* largest width and height asked of update_window
MaxIndex == 3         \* largest device index passed to get_filter_by_index

(***************************************************************************)
(* Enumerations of the source.                                             *)
(***************************************************************************)
FilterType ==
    {"video_input", "audio_input", "video_compressor", "audio_compressor",
     "sample_grabber", "render", "file_sink", "muxer", "smart_tee"}

RecordingFormat == {"AVI", "ASF"}

StateGraph == {"Stopped", "Paused", "Running"}

DeviceCategories ==
    {"VideoInputDevice", "AudioInputDevice", "VideoCompressor", "AudioCompressor"}

RenderClsids == {"NullRender", "VideoRendererDefault", "VideoMixingRenderer"}

(***************************************************************************)
(* Values.  A native filter instance is <<kind, id, sub>>; a pin is        *)
(* <<instance, index>> (its direction follows from where it is used).      *)
(* None is Python's None.  KeyErrPin and IndexErrPin stand for the         *)
(* KeyError of self.filters[t] and the IndexError of in_pins[i] raised     *)
(* while the arguments of a call are evaluated.                            *)
(***************************************************************************)
None == <<"None", 0, "">>
NoPin == <<None, -1>>
KeyErrPin == <<None, -2>>
IndexErrPin == <<None, -3>>

\* A device of the system: <<id, friendly name>>.  Two devices share a name.
DevicePool == {<<0, "camA">>, <<1, "camB">>, <<2, "camA">>}

\* The output pins a video capture device exposes, by pin category, in
\* EnumPins order: a capture-only webcam, one with a preview pin too, and a
\* preview-only source.
DevicePins(id) ==
    CASE id = 0 -> <<"Capture">>
      [] id = 1 -> <<"Capture", "Preview">>
      [] OTHER  -> <<"Preview">>

\* The frame size of the format the device streams (an abstract size id; 0 is
\* the callback's initial (0, 0)).
DeviceResolution(id) == id + 1

\* VIDEOINFOHEADER.bmiHeader of the format the device streams:
\* <<biWidth, biHeight>>.
DeviceFormat(id) ==
    CASE id = 0 -> <<3, 2>>
      [] id = 1 -> <<4, 3>>
      [] OTHER  -> <<2, 3>>

VARIABLES
    devices,           \* category -> sequence of devices, in enumeration order
    filters,           \* FilterGraph.filters: FilterType -> instance or None
    recording_format,  \* FilterGraph.recording_format: "None", "AVI" or "ASF"
    is_recording,      \* FilterGraph.is_recording
    mux_in_pins,       \* len(filters[muxer].in_pins), as cached by reload_pins
    callback,          \* filters[sample_grabber].callback: "None", "unset", "set"
    keep_photo,        \* SampleGrabberCallback.keep_photo
    image_resolution,  \* SampleGrabberCallback.image_resolution
    graph,             \* native: the filter instances in the filter graph
    conns,             \* native: the pin connections <<out pin, in pin>>
    state,             \* native: the graph's run state
    bcb_pc,            \* framework thread: where it is inside BufferCB
    n_grab_true,       \* grab_frame calls that returned True
    n_callbacks,       \* invocations of the user callback
    unanswered,        \* a grab_frame returned True, no user callback since
    faults,            \* native failures injected so far
    query,             \* the last device query: category, index, what it gave
    window,            \* native: the render window's position <<x, y, w, h>>
    recorded_last      \* history: the last prepare_* call that returned was
                       \* prepare_recording_graph

vars ==
    <<devices, filters, recording_format, is_recording, mux_in_pins, callback,
      keep_photo, image_resolution, graph, conns, state, bcb_pc,
      n_grab_true, n_callbacks, unanswered, faults, query, window,
      recorded_last>>

(***************************************************************************)
(* The frame of a call.  n counts the native interface calls made so far;  *)
(* the call number failAt (if any) is the one the environment makes fail.  *)
(* failed collects the native calls that failed, exc is the exception that *)
(* ended the call ("" while it runs).                                      *)
(***************************************************************************)
Frame(failAt) ==
    [filters |-> filters, recording_format |-> recording_format,
     is_recording |-> is_recording, mux_in_pins |-> mux_in_pins,
     callback |-> callback, keep_photo |-> keep_photo,
     image_resolution |-> image_resolution, graph |-> graph, conns |-> conns,
     state |-> state, window |-> window, n |-> 0, failAt |-> failAt, failed |-> {}, exc |-> ""]

Running(s) == s.exc = ""

Raise(s, e) == IF Running(s) THEN [s EXCEPT !.exc = e] ELSE s

\* One call through a native interface pointer.  comtypes turns a failure
\* HRESULT into COMError.  `possible' is what the native side requires for the
\* call to succeed; the environment may fail it anyway.
NativeCall(s, name, possible) ==
    IF ~Running(s) THEN s
    ELSE IF (s.n + 1 = s.failAt) \/ ~possible
         THEN [s EXCEPT !.n = @ + 1, !.failed = @ \cup {name}, !.exc = "COMError"]
         ELSE [s EXCEPT !.n = @ + 1]

\* try: ... except COMError: the error of the frame is dropped.
ExceptCOMError(s) == IF s.exc = "COMError" THEN [s EXCEPT !.exc = ""] ELSE s

\* The positions at which a failure can be injected into an operation whose
\* undisturbed run is the frame r: one of the native calls it makes, or none.
FaultPoints(r) == 0..r.n

CanInject(failAt) == failAt = 0 \/ faults < MaxFaults

\* The fault points of r the environment may still use.
Injectable(r) == IF faults < MaxFaults THEN FaultPoints(r) ELSE {0}

\* The render window before any SetWindowPosition.
NoWindow == <<>>

\* What an operation leaves behind.  A sample grabber that left the registry
\* takes its callback object with it, and a render its window (the fields are
\* reset to their initial values: nothing can reach them any more).
Commit(s) ==
    LET sg == s.filters["sample_grabber"] # None IN
    /\ filters' = s.filters
    /\ recording_format' = s.recording_format
    /\ is_recording' = s.is_recording
    /\ mux_in_pins' = IF s.filters["muxer"] # None THEN s.mux_in_pins ELSE 0
    /\ callback' = IF sg THEN s.callback ELSE "None"
    /\ keep_photo' = IF sg THEN s.keep_photo ELSE FALSE
    /\ image_resolution' = IF sg THEN s.image_resolution ELSE 0
    /\ graph' = s.graph
    /\ conns' = s.conns
    /\ state' = s.state
    /\ window' = IF s.filters["render"] # None THEN s.window ELSE NoWindow
    /\ faults' = IF s.failAt > 0 THEN faults + 1 ELSE faults
    /\ UNCHANGED <<devices, bcb_pc, query>>

\* An operation of the caller's thread other than grab_frame.
Op(s) ==
    Commit(s) /\ UNCHANGED <<n_grab_true, n_callbacks, unanswered, recorded_last>>

\* A prepare_* call: when it returns it is the most recent one that did.
Prepared(s, recording) ==
    /\ Commit(s)
    /\ recorded_last' = IF Running(s) THEN recording ELSE recorded_last
    /\ UNCHANGED <<n_grab_true, n_callbacks, unanswered>>

(***************************************************************************)
(* SystemDeviceEnum.                                                       *)
(***************************************************************************)
NullMoniker == <<-1, "">>

\* IEnumMoniker.Next(1) after `pos' monikers were fetched: (moniker, count).
EnumNext(list, pos) ==
    IF pos < Len(list) THEN <<list[pos + 1], 1>> ELSE <<NullMoniker, 0>>

\* get_moniker_name(moniker): [s, val]; the FriendlyName read from the
\* moniker's property bag.
get_moniker_name(s, moniker) ==
    [s |-> NativeCall(NativeCall(s, "BindToStorage", TRUE), "Read", TRUE),
     val |-> moniker[2]]

\* The while loop of get_available_filters, entered with the (moniker, count)
\* of the last Next; pos monikers were fetched.  [s, val].
RECURSIVE CollectNames(_, _, _, _, _)
CollectNames(s, list, pos, cur, result) ==
    IF ~Running(s) \/ cur[2] = 0 THEN [s |-> s, val |-> result]
    ELSE LET m == get_moniker_name(s, cur[1])
             x == NativeCall(m.s, "Next", TRUE)
         IN  CollectNames(x, list, pos + 1, EnumNext(list, pos),
                          Append(result, m.val))

\* get_available_filters: [s, val]; val is the list of friendly names.  For an
\* empty category CreateClassEnumerator hands back a NULL enumerator, Next on it
\* raises ValueError, and the empty list is returned.
get_available_filters(s0, category) ==
    LET s == NativeCall(s0, "CreateClassEnumerator", TRUE)
        list == devices[category]
    IN  IF ~Running(s) \/ list = <<>> THEN [s |-> s, val |-> <<>>]
        ELSE CollectNames(NativeCall(s, "Next", TRUE), list, 1,
                          EnumNext(list, 0), <<>>)

\* A lookup that never advances the enumerator.
WalkToFirst(s, list, index, i, cur) == [s |-> s, val |-> cur[1]]

\* The while loop of get_filter_by_index: cur is the (moniker, count) of the
\* last Next, i the loop counter.  [s, val]; val is the moniker it stops at.
RECURSIVE WalkTo(_, _, _, _, _)
WalkTo(s, list, index, i, cur) ==
    IF Running(s) /\ i # index /\ cur[2] > 0
    THEN WalkTo(NativeCall(s, "Next", TRUE), list, index, i + 1,
                EnumNext(list, i + 1))
    ELSE [s |-> s, val |-> cur[1]]

\* get_filter_by_index: [s, val]; val is <<device id, name>> of the moniker bound.
\* A NULL enumerator (empty category) or a NULL moniker (enumeration exhausted)
\* raises ValueError when a method is called on it.
get_filter_by_index(s0, category, index) ==
    LET s == NativeCall(s0, "CreateClassEnumerator", TRUE)
        list == devices[category]
        w == WalkTo(NativeCall(s, "Next", TRUE), list, index, 0, EnumNext(list, 0))
        moniker == w.val
        b == NativeCall(w.s, "BindToObject", TRUE)
        m == get_moniker_name(b, moniker)
    IN  IF ~Running(s) THEN [s |-> s, val |-> NullMoniker]
        ELSE IF list = <<>> THEN [s |-> Raise(s, "ValueError"), val |-> NullMoniker]
        ELSE IF ~Running(w.s) THEN [s |-> w.s, val |-> NullMoniker]
        ELSE IF moniker = NullMoniker
        THEN [s |-> Raise(w.s, "ValueError"), val |-> NullMoniker]
        ELSE IF ~Running(m.s) THEN [s |-> m.s, val |-> NullMoniker]
        ELSE [s |-> m.s, val |-> <<moniker[1], m.val>>]

(***************************************************************************)
(* Pins: the native side, and the wrapper's cached pin lists.              *)
(***************************************************************************)
ConnectedOut(s, pin) == \E c \in s.conns : c[1] = pin
ConnectedIn(s, pin) == \E c \in s.conns : c[2] = pin

\* Input pins a filter exposes.  The AVI mux grows one input pin for every
\* input pin that gets connected; the ASF writer has an audio and a video input.
NativeInPins(s, inst) ==
    CASE inst[1] = "muxer" ->
             IF inst[3] = "ASF" THEN 2
             ELSE 1 + Cardinality({c \in s.conns : c[2][1] = inst})
      [] inst[1] \in {"render", "sample_grabber", "video_compressor",
                      "audio_compressor", "smart_tee", "file_sink"} -> 1
      [] OTHER -> 0

NativeOutPins(inst) ==
    CASE inst[1] = "video_input" -> Len(DevicePins(inst[2]))
      [] inst[1] = "smart_tee" -> 2
      [] inst[1] \in {"audio_input", "video_compressor", "audio_compressor",
                      "sample_grabber", "muxer"} -> 1
      [] OTHER -> 0

\* len(filter.in_pins): the list built by reload_pins when the wrapper was
\* made; only the muxer's native list changes afterwards.
CachedInPins(s, inst) ==
    IF inst[1] = "muxer" THEN s.mux_in_pins ELSE NativeInPins(s, inst)

\* self.filters[t].get_out()
get_out(s, t) ==
    IF s.filters[t] = None THEN KeyErrPin
    ELSE IF NativeOutPins(s.filters[t]) = 0 THEN IndexErrPin
    ELSE <<s.filters[t], 0>>

\* self.filters[t].get_in(index)
get_in(s, t, index) ==
    IF s.filters[t] = None THEN KeyErrPin
    ELSE IF index >= CachedInPins(s, s.filters[t]) THEN IndexErrPin
    ELSE <<s.filters[t], index>>

\* Muxer.reload_pins(): EnumPins again, the cached list follows the native one.
reload_pins(s, t) ==
    IF ~Running(s) THEN s
    ELSE IF s.filters[t] = None THEN Raise(s, "KeyError")
    ELSE LET e == NativeCall(s, "EnumPins", TRUE) IN
         IF Running(e) /\ t = "muxer"
         THEN [e EXCEPT !.mux_in_pins = NativeInPins(e, e.filters[t])]
         ELSE e

\* graph_builder.Connect(a, b).  The arguments are evaluated first, left to
\* right.  The native call needs two pins of filters of the graph, neither
\* connected yet.
Connect(s, a, b) ==
    IF ~Running(s) THEN s
    ELSE IF a = KeyErrPin THEN Raise(s, "KeyError")
    ELSE IF a = IndexErrPin THEN Raise(s, "IndexError")
    ELSE IF b = KeyErrPin THEN Raise(s, "KeyError")
    ELSE IF b = IndexErrPin THEN Raise(s, "IndexError")
    ELSE LET ok == /\ a # NoPin /\ b # NoPin
                   /\ a[1] \in s.graph /\ b[1] \in s.graph
                   /\ ~ConnectedOut(s, a) /\ ~ConnectedIn(s, b)
             c == NativeCall(s, "Connect", ok)
         IN  IF Running(c) THEN [c EXCEPT !.conns = @ \cup {<<a, b>>}] ELSE c

\* Filter.find_pin(PIN_OUT, category, unconnected=True) on a video input:
\* [s, val].  FindPin fails when the filter has no such pin; the COMError is
\* caught and None returned.
find_pin(s, inst, category) ==
    LET pins == DevicePins(inst[2])
        cand == {i \in 1..Len(pins) :
                    pins[i] = category /\ ~ConnectedOut(s, <<inst, i - 1>>)}
        c == NativeCall(s, "FindPin", cand # {})
    IN  IF ~Running(s) THEN [s |-> s, val |-> NoPin]
        ELSE IF ~Running(c) THEN [s |-> ExceptCOMError(c), val |-> NoPin]
        ELSE [s |-> c, val |-> <<inst, (CHOOSE i \in cand : \A j \in cand : i <= j) - 1>>]

(***************************************************************************)
(* FilterFactory.build_filter and FilterGraph.__add_filter.                *)
(***************************************************************************)
CategoryOf(filter_type) ==
    CASE filter_type = "video_input" -> "VideoInputDevice"
      [] filter_type = "audio_input" -> "AudioInputDevice"
      [] filter_type = "video_compressor" -> "VideoCompressor"
      [] filter_type = "audio_compressor" -> "AudioCompressor"

\* Filter.__init__: the wrapper keeps the instance and lists its pins.
FilterInit(s) == NativeCall(s, "EnumPins", TRUE)

\* Render.__init__: [s, val]; val tells whether video_window was obtained.  A
\* renderer without IVideoWindow (the null renderer) makes QueryInterface fail;
\* the COMError is caught and video_window is None.
RenderInit(s, clsid) ==
    LET f == FilterInit(s)
        q == NativeCall(f, "QueryInterface(IVideoWindow)", clsid # "NullRender")
    IN  IF Running(f)
        THEN [s |-> ExceptCOMError(q), val |-> Running(q)]
        ELSE [s |-> f, val |-> FALSE]

\* The Render wrapper: what the registry holds is told apart by video_window
\* only, not by the class of the renderer behind it.
RenderOf(video_window) ==
    <<"render", 0, IF video_window THEN "video_window" ELSE "">>

\* build_filter(filter_type, id): [s, val]; val is the instance wrapped.
build_filter(s, filter_type, id) ==
    CASE filter_type \in {"video_input", "audio_input", "video_compressor",
                          "audio_compressor"} ->
             LET g == get_filter_by_index(s, CategoryOf(filter_type), id) IN
             [s |-> FilterInit(g.s), val |-> <<filter_type, g.val[1], "">>]
      [] filter_type = "render" ->
             LET r == RenderInit(NativeCall(s, "CreateObject", TRUE), id) IN
             [s |-> r.s, val |-> RenderOf(r.val)]
      [] filter_type = "sample_grabber" ->
             [s |-> NativeCall(FilterInit(NativeCall(s, "CreateObject", TRUE)),
                               "QueryInterface(ISampleGrabber)", TRUE),
              val |-> <<"sample_grabber", 0, "">>]
      [] filter_type = "muxer" ->
             [s |-> FilterInit(s), val |-> id]
      [] filter_type = "smart_tee" ->
             [s |-> FilterInit(NativeCall(s, "CreateObject", TRUE)),
              val |-> <<"smart_tee", 0, "">>]
      [] OTHER ->
             [s |-> Raise(s, "ValueError"), val |-> None]

\* No assertion at all.
AssertNothing(s, filter_type) == s

\* assert filter_type not in self.filters
AssertNotRegistered(s, filter_type) ==
    IF Running(s) /\ s.filters[filter_type] # None
    THEN Raise(s, "AssertionError") ELSE s

\* self.filters[filter_type] = filter
Register(s, filter_type, inst) ==
    IF Running(s) THEN [s EXCEPT !.filters[filter_type] = inst] ELSE s

\* An AddFilter whose failure is dropped.
AddFilterUnchecked(s, inst) ==
    LET a == ExceptCOMError(NativeCall(s, "AddFilter", inst \notin s.graph)) IN
    IF Running(a) THEN [a EXCEPT !.graph = @ \cup {inst}] ELSE a

\* self.filter_graph.AddFilter(filter.instance, filter.Name)
AddFilter(s, inst) ==
    LET a == NativeCall(s, "AddFilter", inst \notin s.graph) IN
    IF Running(a) THEN [a EXCEPT !.graph = @ \cup {inst}] ELSE a

\* self.filters[filter_type] = filter, then AddFilter; b is what build_filter
\* gave.
RegisterAndAdd(b, filter_type) ==
    AddFilter(Register(b.s, filter_type, b.val), b.val)

\* __add_filter: the assertion, the factory, the registry, the native graph.
add_filter(s, filter_type, filter_id) ==
    RegisterAndAdd(build_filter(AssertNotRegistered(s, filter_type),
                                filter_type, filter_id),
                   filter_type)

(***************************************************************************)
(* add_file_writer_and_muxer: the file name decides the recording format.  *)
(* A file name is a sequence of characters.                                *)
(***************************************************************************)
Filenames ==
    { <<"a", ".", "w", "m", "v">>, <<"a", ".", "W", "m", "V">>,
      <<"a", ".", "a", "v", "i">>, <<"w", "m", "v">>, <<".", "w", "m", "v">>,
      <<"a", ".", "w", "m", "v", "/", "b">>, <<"d", "/", ".", "W", "M", "V">>,
      <<"a", ".", "w", "m", "v", ".", "a", "v", "i">> }

\* str.rfind for a set of characters: the last position holding one, 0 if none.
RFind(p, chars) ==
    LET hits == {i \in 1..Len(p) : p[i] \in chars} IN
    IF hits = {} THEN 0 ELSE CHOOSE i \in hits : \A j \in hits : j <= i

\* os.path.splitext(p)[1]: from the last dot of the last path component, unless
\* that component has only dots before it.
splitext_ext(p) ==
    LET sepIndex == RFind(p, {"/", "\\"})
        dotIndex == RFind(p, {"."})
    IN  IF dotIndex > sepIndex
           /\ \E k \in (sepIndex + 1)..(dotIndex - 1) : p[k] # "."
        THEN SubSeq(p, dotIndex, Len(p))
        ELSE <<>>

\* A comparison that keeps the case.
KeepCase(c) == c

\* str.upper(), on the characters file names are drawn from.
UpperChar(c) ==
    CASE c = "w" -> "W" [] c = "m" -> "M" [] c = "v" -> "V"
      [] c = "a" -> "A" [] c = "i" -> "I" [] c = "b" -> "B" [] c = "d" -> "D"
      [] OTHER -> c

upper(str) == [i \in 1..Len(str) |-> UpperChar(str[i])]

\* os.path.splitext(filename)[1].upper()
extension(filename) == upper(splitext_ext(filename))

\* RecordingFormat.ASF if extension == ".WMV" else RecordingFormat.AVI
FormatOf(filename) ==
    IF extension(filename) = <<".", "W", "M", "V">> THEN "ASF" ELSE "AVI"

\* Ids of the muxer objects alive: in the graph or held by the registry.
MuxIdsInUse(s) ==
    {i[2] : i \in {j \in s.graph \cup {s.filters["muxer"]} :
                      j[1] \in {"muxer", "file_sink"}}}

\* capture_builder.SetOutputFileName(subtype, filename): the capture builder
\* makes the muxer (and, for AVI, the file writer behind it) and adds them to
\* the graph: [s, val]; val is the muxer.
SetOutputFileName(s, subtype, id) ==
    LET c == NativeCall(s, "SetOutputFileName", TRUE)
        mux == <<"muxer", id, subtype>>
        sink == <<"file_sink", id, subtype>>
    IN  IF ~Running(c) THEN [s |-> c, val |-> None]
        ELSE IF subtype = "ASF"
        THEN [s |-> [c EXCEPT !.graph = @ \cup {mux}], val |-> mux]
        ELSE [s |-> [c EXCEPT !.graph = @ \cup {mux, sink},
                              !.conns = @ \cup {<<(<<mux, 0>>), (<<sink, 0>>)>>}],
              val |-> mux]

\* The body of add_file_writer_and_muxer.
file_writer_and_muxer(s, filename, id) ==
    LET f == [s EXCEPT !.recording_format = FormatOf(filename)]
        o == SetOutputFileName(f, FormatOf(filename), id)
        b == build_filter(o.s, "muxer", o.val)
        r == Register(b.s, "muxer", b.val)
    IN  IF Running(r) THEN [r EXCEPT !.mux_in_pins = NativeInPins(r, b.val)] ELSE r

(***************************************************************************)
(* Preview and recording graphs.                                           *)
(***************************************************************************)
\* assert filter_type in self.filters
AssertRegistered(s, filter_type) ==
    IF Running(s) /\ s.filters[filter_type] = None
    THEN Raise(s, "AssertionError") ELSE s

\* The frame size of the media type the sample grabber's input was connected
\* with: that of the device feeding it.
ConnectedResolution(s, sg) ==
    LET c == CHOOSE c \in s.conns : c[2] = <<sg, 0>> IN
    DeviceResolution(c[1][1][2])

\* self.callback.image_resolution = value
SetImageResolution(s, value) ==
    IF s.callback = "None" THEN Raise(s, "AttributeError")
    ELSE [s EXCEPT !.image_resolution = value]

\* SampleGrabber.initialize_after_connection(): get_resolution() reads the
\* connected media type (the right-hand side, evaluated first), then the
\* callback's attribute is set.
initialize_after_connection(s) ==
    LET sg == s.filters["sample_grabber"]
        g == NativeCall(s, "GetConnectedMediaType", ConnectedIn(s, <<sg, 0>>))
    IN  IF Running(g) THEN SetImageResolution(g, ConnectedResolution(g, sg)) ELSE g

\* The assignment in a `finally': made also when the call has failed.
SetRecordingAlways(s, value) == [s EXCEPT !.is_recording = value]

\* self.is_recording = value
SetRecording(s, value) ==
    IF Running(s) THEN [s EXCEPT !.is_recording = value] ELSE s

\* graph_builder.Connect(self.filters[from].get_out(), self.filters[to].get_in(index))
ConnectOutIn(s, from, to, index) ==
    Connect(s, get_out(s, from), get_in(s, to, index))

\* graph_builder.Connect(pin, self.filters[to].get_in(index))
ConnectPinIn(s, pin, to, index) ==
    Connect(s, pin, get_in(s, to, index))

\* A preview that forgets the sample grabber branch.
preview_connections_direct(s) ==
    ConnectOutIn(s, "video_input", "render", 0)

\* The connections of prepare_preview_graph.
preview_connections(s) ==
    IF s.filters["sample_grabber"] = None
    THEN ConnectOutIn(s, "video_input", "render", 0)
    ELSE initialize_after_connection(
             ConnectOutIn(ConnectOutIn(s, "video_input", "sample_grabber", 0),
                          "sample_grabber", "render", 0))

\* The body of prepare_preview_graph after its assertions.
preview_body(a) ==
    IF Running(a) THEN SetRecording(preview_connections(a), FALSE) ELSE a

prepare_preview_graph(s) ==
    preview_body(AssertRegistered(AssertRegistered(s, "video_input"), "render"))

\* The pin handed to the smart tee's input.
TeeSource(preview_pin, capture_pin) ==
    IF capture_pin # NoPin THEN capture_pin ELSE preview_pin

\* if (preview_pin is None) or (capture_pin is None)
NeedsSmartTee(preview_pin, capture_pin) ==
    preview_pin = NoPin \/ capture_pin = NoPin

\* The smart tee's outputs taken in the other order.
TeePinsSwapped(tee) == [capture |-> <<tee, 1>>, preview |-> <<tee, 0>>]

\* capture_pin, preview_pin = smart_tee.out_pins
TeePins(tee) == [capture |-> <<tee, 0>>, preview |-> <<tee, 1>>]

\* The pins returned once the smart tee is connected: [s, preview, capture].
smart_tee_pins(k) ==
    [s |-> k,
     preview |-> TeePins(k.filters["smart_tee"]).preview,
     capture |-> TeePins(k.filters["smart_tee"]).capture]

\* The body of the if of __get_capture_and_preview_pins.
with_smart_tee(s, preview_pin, capture_pin) ==
    smart_tee_pins(ConnectPinIn(add_filter(s, "smart_tee", None),
                                TeeSource(preview_pin, capture_pin),
                                "smart_tee", 0))

\* __get_capture_and_preview_pins once both lookups are done; c is what the
\* lookup of the capture pin gave.
pins_found(c, preview_pin) ==
    IF NeedsSmartTee(preview_pin, c.val)
    THEN with_smart_tee(c.s, preview_pin, c.val)
    ELSE [s |-> c.s, preview |-> preview_pin, capture |-> c.val]

\* The lookup of the capture pin; p is what the lookup of the preview pin gave.
find_capture_pin(p, vi) ==
    pins_found(find_pin(p.s, vi, "Capture"), p.val)

\* __get_capture_and_preview_pins: [s, preview, capture].
get_capture_and_preview_pins(s) ==
    find_capture_pin(find_pin(s, s.filters["video_input"], "Preview"),
                     s.filters["video_input"])

\* An ASF branch with the writer's two inputs exchanged.
recording_connections_asf_swapped(s, preview_pin, capture_pin) ==
    ConnectPinIn(ConnectOutIn(ConnectPinIn(s, capture_pin, "muxer", 0),
                              "audio_input", "muxer", 1),
                 preview_pin, "render", 0)

\* The ASF branch of prepare_recording_graph.
recording_connections_asf(s, preview_pin, capture_pin) ==
    ConnectPinIn(ConnectOutIn(ConnectPinIn(s, capture_pin, "muxer", 1),
                              "audio_input", "muxer", 0),
                 preview_pin, "render", 0)

\* The audio part of the AVI branch.
recording_connections_audio(s) ==
    IF Running(s) /\ s.filters["audio_input"] # None
    THEN ConnectOutIn(reload_pins(ConnectOutIn(s, "audio_input",
                                               "audio_compressor", 0),
                                  "muxer"),
                      "audio_compressor", "muxer", 1)
    ELSE s

\* The AVI branch of prepare_recording_graph.
recording_connections_avi(s, preview_pin, capture_pin) ==
    recording_connections_audio(
        ConnectPinIn(ConnectOutIn(ConnectPinIn(s, capture_pin,
                                               "video_compressor", 0),
                                  "video_compressor", "muxer", 0),
                     preview_pin, "render", 0))

\* prepare_recording_graph from the pins on; g is what
\* __get_capture_and_preview_pins gave.
recording_connections(g) ==
    IF g.s.recording_format = "ASF"
    THEN SetRecording(recording_connections_asf(g.s, g.preview, g.capture), TRUE)
    ELSE SetRecording(recording_connections_avi(g.s, g.preview, g.capture), TRUE)

\* The body of prepare_recording_graph after its assertions.
recording_body(a) ==
    IF Running(a) THEN recording_connections(get_capture_and_preview_pins(a))
    ELSE a

prepare_recording_graph(s) ==
    recording_body(AssertRegistered(AssertRegistered(AssertRegistered(s,
                       "video_input"), "render"), "muxer"))

(***************************************************************************)
(* Removing filters.                                                       *)
(***************************************************************************)
\* IEnumFilters.Next(1) on a fresh (or reset) enumerator: the first filter.
EnumFirst(g) == CHOOSE f \in g : TRUE

\* filter_graph.RemoveFilter(filt): the filter leaves the graph with its
\* connections.
RemoveFilter(s, filt) ==
    LET r == NativeCall(s, "RemoveFilter", filt \in s.graph) IN
    IF Running(r)
    THEN [r EXCEPT !.graph = @ \ {filt},
                   !.conns = {c \in @ : c[1][1] # filt /\ c[2][1] # filt}]
    ELSE r

\* An `if' in place of the `while': one filter is removed, at most.
remove_loop_once(s) ==
    IF ~Running(s) \/ s.graph = {} THEN s
    ELSE LET r == RemoveFilter(s, EnumFirst(s.graph))
             z == NativeCall(r, "Reset", TRUE)
         IN  NativeCall(z, "Next", TRUE)

\* The loop of remove_filters: remove the first filter, Reset, Next again.
RECURSIVE remove_loop(_)
remove_loop(s) ==
    IF ~Running(s) \/ s.graph = {} THEN s
    ELSE LET r == RemoveFilter(s, EnumFirst(s.graph))
             z == NativeCall(r, "Reset", TRUE)
         IN  remove_loop(NativeCall(z, "Next", TRUE))

NoFilters == [t \in FilterType |-> None]

remove_filters(s) ==
    LET e == NativeCall(s, "EnumFilters", TRUE)
        l == remove_loop(NativeCall(e, "Next", TRUE))
    IN  IF Running(l) THEN [l EXCEPT !.filters = NoFilters] ELSE l

\* The first loop of remove_all_filters_but_video_source: every enumerated
\* filter that is not the video input's instance, in enumeration order.  rest
\* is what the enumerator still holds.  [s, val].
RECURSIVE filters_to_delete(_, _, _, _)
filters_to_delete(s, rest, keep, acc) ==
    LET x == NativeCall(s, "Next", TRUE) IN
    IF ~Running(x) \/ rest = {} THEN [s |-> x, val |-> acc]
    ELSE LET filt == EnumFirst(rest) IN
         filters_to_delete(x, rest \ {filt}, keep,
                           IF filt # keep THEN Append(acc, filt) ELSE acc)

\* for filt in filters_to_delete: RemoveFilter(filt)
RECURSIVE remove_each(_, _)
remove_each(s, list) ==
    IF ~Running(s) \/ list = <<>> THEN s
    ELSE remove_each(RemoveFilter(s, Head(list)), Tail(list))

\* self.filters = {FilterType.video_input: video_input}
KeepOnly(s, video_input) ==
    IF Running(s) THEN [s EXCEPT !.filters = [NoFilters EXCEPT !["video_input"] = video_input]]
    ELSE s

remove_all_filters_but_video_source(s) ==
    LET video_input == s.filters["video_input"]
        e == NativeCall(s, "EnumFilters", TRUE)
        d == filters_to_delete(e, e.graph, video_input, <<>>)
    IN  IF video_input = None THEN Raise(s, "KeyError")
        ELSE KeepOnly(remove_each(d.s, d.val), video_input)

(***************************************************************************)
(* Sample grabber, still frames, run state, property pages.                *)
(***************************************************************************)
\* SampleGrabber.set_callback: the attribute first, then the native call.
set_callback(s) ==
    LET b == IF Running(s)
             THEN [s EXCEPT !.callback = "unset", !.keep_photo = FALSE,
                            !.image_resolution = 0]
             ELSE s
        c == NativeCall(b, "SetCallback", TRUE)
    IN  IF Running(c) THEN [c EXCEPT !.callback = "set"] ELSE c

add_sample_grabber(s) ==
    NativeCall(set_callback(add_filter(s, "sample_grabber", None)),
               "SetMediaType", TRUE)

\* SampleGrabberCallback.grab_frame, reached through the wrapper's callback.
callback_grab_frame(s) ==
    IF s.callback = "None" THEN Raise(s, "AttributeError")
    ELSE [s EXCEPT !.keep_photo = TRUE]

\* FilterGraph.grab_frame: the frame after it.
grab_frame(s) ==
    IF s.filters["sample_grabber"] # None THEN callback_grab_frame(s) ELSE s

\* FilterGraph.grab_frame: what it returns.
grab_frame_result(s) ==
    IF ~Running(grab_frame(s)) THEN <<>>
    ELSE IF s.filters["sample_grabber"] # None THEN <<"True">> ELSE <<"False">>

\* media_control.Run() / Pause() / Stop()
media_control(s, call, to) ==
    LET c == NativeCall(s, call, TRUE) IN
    IF Running(c) THEN [c EXCEPT !.state = to] ELSE c

\* show_properties(object): every COMError inside is swallowed.
show_properties(s) ==
    LET q == NativeCall(s, "QueryInterface(ISpecifyPropertyPages)", TRUE)
        g == NativeCall(q, "GetPages", TRUE)
    IN  IF Running(s) THEN ExceptCOMError(g) ELSE s

\* get_input_device().set_properties()
set_properties(s) ==
    IF s.filters["video_input"] = None THEN Raise(s, "KeyError")
    ELSE show_properties(s)

(***************************************************************************)
(* The render window.  A quotient of two ints is a double; here it is the  *)
(* exact fraction <<numerator, denominator>>, and the rounding of the      *)
(* double shows where it can change a result: int(img * scale) of a scale  *)
(* that no double holds exactly, when the exact product is a whole number, *)
(* is that number or, the double product falling just below it, one less.  *)
(***************************************************************************)
RECURSIVE GCD(_, _)
GCD(a, b) == IF b = 0 THEN a ELSE GCD(b, a % b)

\* a < b for fractions with positive denominators.
Less(a, b) == a[1] * b[2] < b[1] * a[2]

\* min(scale_w, scale_h, 1): the first of the least.
Min3(a, b, c) ==
    IF Less(b, a) THEN (IF Less(c, b) THEN c ELSE b)
    ELSE (IF Less(c, a) THEN c ELSE a)

\* No double equals the fraction: in lowest terms its denominator is not a
\* power of two.
Inexact(q) ==
    LET d == q[2] \div GCD(q[1], q[2]) IN
    \A k \in 0..d : 2^k # d

\* int(img * scale): truncation of the double product (no operand is
\* negative here).  below: the double product fell below the exact one.
IntOfProduct(img, q, below) ==
    LET x == img * q[1] IN
    IF x % q[2] = 0 /\ Inexact(q) /\ below
    THEN (x \div q[2]) - 1
    ELSE x \div q[2]

\* The scale of update_window.
Scale(width, height, img) ==
    Min3(<<width, img[1]>>, <<height, img[2]>>, <<1, 1>>)

\* (int(img_w * scale), int(img_h * scale))
WindowSize(width, height, img, below) ==
    <<IntOfProduct(img[1], Scale(width, height, img), below[1]),
      IntOfProduct(img[2], Scale(width, height, img), below[2])>>

\* VideoInput.get_current_format(): [s, val].
get_current_format(s) ==
    LET vi == s.filters["video_input"]
        q == NativeCall(s, "QueryInterface(IAMStreamConfig)", TRUE)
        g == NativeCall(q, "GetFormat", TRUE)
    IN  IF vi = None THEN [s |-> Raise(s, "KeyError"), val |-> <<0, 0>>]
        ELSE IF NativeOutPins(vi) = 0
        THEN [s |-> Raise(s, "IndexError"), val |-> <<0, 0>>]
        ELSE [s |-> g, val |-> DeviceFormat(vi[2])]

\* Render.set_window_position(x, y, width, height): video_window is None in
\* a Render whose QueryInterface(IVideoWindow) failed.
set_window_position(s, x, y, size) ==
    IF ~Running(s) THEN s
    ELSE IF s.filters["render"][3] # "video_window" THEN Raise(s, "AttributeError")
    ELSE LET c == NativeCall(s, "SetWindowPosition", TRUE) IN
         IF Running(c) THEN [c EXCEPT !.window = <<x, y, size[1], size[2]>>] ELSE c

\* update_window(width, height)
update_window(s, width, height, below) ==
    IF s.filters["render"] = None THEN s
    ELSE LET g == get_current_format(s) IN
         set_window_position(g.s, 0, 0, WindowSize(width, height, g.val, below))

\* The sample grabber delivers buffers to its callback while the graph runs
\* and its input is connected.
BuffersArrive ==
    /\ state = "Running"
    /\ callback = "set"
    /\ filters["sample_grabber"] \in graph
    /\ \E c \in conns : c[2] = <<filters["sample_grabber"], 0>>

(***************************************************************************)
(* Actions: the operations of FilterGraph, on the caller's thread.  f is   *)
(* the native call of the operation that the environment makes fail (0:    *)
(* none); its range covers the native calls the operation can make.        *)
(***************************************************************************)
AddVideoInputDevice ==
    \E index \in 0..2 :
        \E f \in Injectable(add_filter(Frame(0), "video_input", index)) :
            Op(add_filter(Frame(f), "video_input", index))

AddAudioInputDevice ==
    \E index \in 0..1 :
        \E f \in Injectable(add_filter(Frame(0), "audio_input", index)) :
            Op(add_filter(Frame(f), "audio_input", index))

AddVideoCompressor ==
    \E index \in 0..1 :
        \E f \in Injectable(add_filter(Frame(0), "video_compressor", index)) :
            Op(add_filter(Frame(f), "video_compressor", index))

AddAudioCompressor ==
    \E index \in 0..1 :
        \E f \in Injectable(add_filter(Frame(0), "audio_compressor", index)) :
            Op(add_filter(Frame(f), "audio_compressor", index))

AddSampleGrabber ==
    \E f \in Injectable(add_sample_grabber(Frame(0))) :
        Op(add_sample_grabber(Frame(f)))

AddNullRender ==
    \E f \in Injectable(add_filter(Frame(0), "render", "NullRender")) :
        Op(add_filter(Frame(f), "render", "NullRender"))

AddDefaultRender ==
    \E f \in Injectable(add_filter(Frame(0), "render", "VideoRendererDefault")) :
        Op(add_filter(Frame(f), "render", "VideoRendererDefault"))

AddVideoMixingRender ==
    \E f \in Injectable(add_filter(Frame(0), "render", "VideoMixingRenderer")) :
        Op(add_filter(Frame(f), "render", "VideoMixingRenderer"))

\* The id of the muxer object SetOutputFileName makes next.
FreshMuxId(s) == CHOOSE i \in 1..(MaxMux + 1) :
    i \notin MuxIdsInUse(s) /\ \A j \in 1..(i - 1) : j \in MuxIdsInUse(s)

\* A muxer object can still be made within the bound.
MuxAvailable == \E i \in 1..MaxMux : i \notin MuxIdsInUse(Frame(0))

\* The call stays within the bound: a muxer object can still be made, or the
\* call fails at SetOutputFileName (its first native call) and makes none.
MuxCallAllowed(f) == MuxAvailable \/ f = 1

\* add_file_writer_and_muxer(filename) called in the current state.
add_file_writer_and_muxer(f, filename) ==
    file_writer_and_muxer(Frame(f), filename, FreshMuxId(Frame(f)))

AddFileWriterAndMuxer ==
    \E filename \in Filenames :
        \E f \in 0..2 :
            /\ MuxCallAllowed(f)
            /\ CanInject(f)
            /\ Op(add_file_writer_and_muxer(f, filename))

PreparePreviewGraph ==
    \E f \in Injectable(prepare_preview_graph(Frame(0))) :
        Prepared(prepare_preview_graph(Frame(f)), FALSE)

PrepareRecordingGraph ==
    \E f \in Injectable(prepare_recording_graph(Frame(0))) :
        Prepared(prepare_recording_graph(Frame(f)), TRUE)

RemoveFilters ==
    \E f \in Injectable(remove_filters(Frame(0))) :
        Op(remove_filters(Frame(f)))

RemoveAllFiltersButVideoSource ==
    \E f \in Injectable(remove_all_filters_but_video_source(Frame(0))) :
        Op(remove_all_filters_but_video_source(Frame(f)))

SetProperties ==
    \E f \in Injectable(set_properties(Frame(0))) :
        Op(set_properties(Frame(f)))

UpdateWindow ==
    \E width, height \in 0..MaxExtent, below \in BOOLEAN \X BOOLEAN :
        \E f \in Injectable(update_window(Frame(0), width, height, below)) :
            Op(update_window(Frame(f), width, height, below))

Run ==
    \E f \in 0..1 :
        /\ CanInject(f)
        /\ Op(media_control(Frame(f), "Run", "Running"))

Pause ==
    \E f \in 0..1 :
        /\ CanInject(f)
        /\ Op(media_control(Frame(f), "Pause", "Paused"))

Stop ==
    \E f \in 0..1 :
        /\ CanInject(f)
        /\ Op(media_control(Frame(f), "Stop", "Stopped"))

(***************************************************************************)
(* The framework thread inside SampleGrabberCallback.BufferCB: the test of *)
(* the flag, its clearing and the user callback are separate steps, each   *)
(* atomic (one attribute access under the interpreter lock).               *)
(***************************************************************************)
ThreadFrame ==
    UNCHANGED <<devices, filters, recording_format, is_recording, mux_in_pins,
                callback, image_resolution, graph, conns, state, faults, query,
                n_grab_true, window, recorded_last>>

\* A BufferCB that invokes the user callback before it clears the flag.
BufferCBCallbackFirst(pc) ==
    CASE pc = "idle" -> "invoke"
      [] pc = "invoke" -> "clear"
      [] pc = "clear" -> "idle"

\* The order of the statements of BufferCB once the flag was found set.
BufferCBNext(pc) ==
    CASE pc = "idle" -> "clear"
      [] pc = "clear" -> "invoke"
      [] pc = "invoke" -> "idle"

\* if self.keep_photo:
BufferCBTest ==
    /\ bcb_pc = "idle"
    /\ BuffersArrive
    /\ bcb_pc' = IF keep_photo THEN BufferCBNext("idle") ELSE "idle"
    /\ ThreadFrame
    /\ UNCHANGED <<keep_photo, n_callbacks, unanswered>>

\* self.keep_photo = False
BufferCBClear ==
    /\ bcb_pc = "clear"
    /\ bcb_pc' = BufferCBNext("clear")
    /\ keep_photo' = FALSE
    /\ ThreadFrame
    /\ UNCHANGED <<n_callbacks, unanswered>>

\* self.callback(img)
BufferCBInvoke ==
    /\ bcb_pc = "invoke"
    /\ bcb_pc' = BufferCBNext("invoke")
    /\ n_callbacks' = n_callbacks + 1
    /\ unanswered' = FALSE
    /\ ThreadFrame
    /\ UNCHANGED keep_photo

\* grab_frame, counted.
GrabFrameCounted ==
    /\ n_grab_true < MaxGrabs
    /\ Commit(grab_frame(Frame(0)))
    /\ n_grab_true' = IF grab_frame_result(Frame(0)) = <<"True">>
                      THEN n_grab_true + 1 ELSE n_grab_true
    /\ unanswered' = (unanswered \/ grab_frame_result(Frame(0)) = <<"True">>)
    /\ UNCHANGED <<n_callbacks, recorded_last>>

(***************************************************************************)
(* The device queries of SystemDeviceEnum, as operations of their own.     *)
(***************************************************************************)
QueryFrame ==
    UNCHANGED <<devices, filters, recording_format, is_recording, mux_in_pins,
                callback, keep_photo, image_resolution, graph, conns, state,
                bcb_pc, n_grab_true, n_callbacks, unanswered, window,
                recorded_last>>

Outcome(s, f) ==
    /\ faults' = IF f > 0 THEN faults + 1 ELSE faults
    /\ QueryFrame

GetAvailableFilters ==
    \E category \in DeviceCategories :
      \E f \in FaultPoints(get_available_filters(Frame(0), category).s) :
        LET r == get_available_filters(Frame(f), category) IN
        /\ CanInject(f)
        /\ query' = [op |-> "get_available_filters", category |-> category,
                     index |-> 0, fault |-> f, exc |-> r.s.exc,
                     names |-> IF Running(r.s) THEN r.val ELSE <<>>,
                     dev |-> NullMoniker]
        /\ Outcome(r.s, f)

GetFilterByIndex ==
    \E category \in DeviceCategories, index \in -1..MaxIndex :
      \E f \in FaultPoints(get_filter_by_index(Frame(0), category, index).s) :
        LET r == get_filter_by_index(Frame(f), category, index) IN
        /\ CanInject(f)
        /\ query' = [op |-> "get_filter_by_index", category |-> category,
                     index |-> index, fault |-> f, exc |-> r.s.exc,
                     names |-> <<>>, dev |-> r.val]
        /\ Outcome(r.s, f)

(***************************************************************************)
(* Spec: every operation that builds or tears down the graph, from a       *)
(* freshly constructed FilterGraph on a system with two cameras.           *)
(***************************************************************************)
NoQuery == [op |-> "none", category |-> "", index |-> 0, fault |-> 0,
            exc |-> "", names |-> <<>>, dev |-> NullMoniker]

SystemDevices ==
    [c \in DeviceCategories |->
        CASE c = "VideoInputDevice" -> << <<0, "camA">>, <<1, "camB">> >>
          [] c = "AudioInputDevice" -> << <<0, "mic">> >>
          [] c = "VideoCompressor" -> << <<0, "codec">> >>
          [] c = "AudioCompressor" -> << <<0, "acodec">> >>]

Init ==
    /\ devices = SystemDevices
    /\ filters = NoFilters
    /\ recording_format = "None"
    /\ is_recording = FALSE
    /\ mux_in_pins = 0
    /\ callback = "None"
    /\ keep_photo = FALSE
    /\ image_resolution = 0
    /\ graph = {}
    /\ conns = {}
    /\ state = "Stopped"
    /\ bcb_pc = "idle"
    /\ n_grab_true = 0
    /\ n_callbacks = 0
    /\ unanswered = FALSE
    /\ faults = 0
    /\ query = NoQuery
    /\ window = NoWindow
    /\ recorded_last = FALSE

Next ==
    \/ AddVideoInputDevice
    \/ AddAudioInputDevice
    \/ AddVideoCompressor
    \/ AddAudioCompressor
    \/ AddSampleGrabber
    \/ AddNullRender
    \/ AddDefaultRender
    \/ AddVideoMixingRender
    \/ AddFileWriterAndMuxer
    \/ PreparePreviewGraph
    \/ PrepareRecordingGraph
    \/ RemoveFilters
    \/ RemoveAllFiltersButVideoSource
    \/ SetProperties

Spec == Init /\ [][Next]_vars

(***************************************************************************)
(* SpecStill: a client taking still frames from a preview graph that was   *)
(* built with add_video_input_device(0), add_sample_grabber,               *)
(* add_null_render and prepare_preview_graph.  The framework thread        *)
(* delivers buffers while the graph runs.                                  *)
(***************************************************************************)
StillVideoInput == <<"video_input", 0, "">>
StillGrabber == <<"sample_grabber", 0, "">>
StillRender == RenderOf(FALSE)

PreviewBuilt ==
    /\ filters = [NoFilters EXCEPT !["video_input"] = StillVideoInput,
                                   !["sample_grabber"] = StillGrabber,
                                   !["render"] = StillRender]
    /\ recording_format = "None"
    /\ is_recording = FALSE
    /\ mux_in_pins = 0
    /\ callback = "set"
    /\ keep_photo = FALSE
    /\ image_resolution = DeviceResolution(0)
    /\ graph = {StillVideoInput, StillGrabber, StillRender}
    /\ conns = { <<(<<StillVideoInput, 0>>), (<<StillGrabber, 0>>)>>,
                 <<(<<StillGrabber, 0>>), (<<StillRender, 0>>)>> }

InitStill ==
    /\ PreviewBuilt
    /\ devices = SystemDevices
    /\ state = "Stopped"
    /\ bcb_pc = "idle"
    /\ n_grab_true = 0
    /\ n_callbacks = 0
    /\ unanswered = FALSE
    /\ faults = 0
    /\ query = NoQuery
    /\ window = NoWindow
    /\ recorded_last = FALSE

NextStill ==
    \/ GrabFrameCounted
    \/ BufferCBTest
    \/ BufferCBClear
    \/ BufferCBInvoke
    \/ Run
    \/ Pause
    \/ Stop

\* The framework keeps delivering buffers and BufferCB runs to its end.
SpecStill ==
    /\ InitStill
    /\ [][NextStill]_vars
    /\ WF_vars(BufferCBTest)
    /\ WF_vars(BufferCBClear)
    /\ WF_vars(BufferCBInvoke)

(***************************************************************************)
(* SpecEnum: the device queries, on every system whose video category      *)
(* holds up to MaxDevices devices of the pool, in any order.               *)
(***************************************************************************)
DeviceLists ==
    {l \in UNION {[1..n -> DevicePool] : n \in 0..MaxDevices} :
        \A i, j \in 1..Len(l) : l[i] = l[j] => i = j}

InitEnum ==
    /\ \E l \in DeviceLists :
          devices = [SystemDevices EXCEPT !["VideoInputDevice"] = l]
    /\ filters = NoFilters
    /\ recording_format = "None"
    /\ is_recording = FALSE
    /\ mux_in_pins = 0
    /\ callback = "None"
    /\ keep_photo = FALSE
    /\ image_resolution = 0
    /\ graph = {}
    /\ conns = {}
    /\ state = "Stopped"
    /\ bcb_pc = "idle"
    /\ n_grab_true = 0
    /\ n_callbacks = 0
    /\ unanswered = FALSE
    /\ faults = 0
    /\ query = NoQuery
    /\ window = NoWindow
    /\ recorded_last = FALSE

NextEnum ==
    \/ GetAvailableFilters
    \/ GetFilterByIndex

SpecEnum == InitEnum /\ [][NextEnum]_vars

(***************************************************************************)
(* SpecWindow: a client that builds a preview and resizes its window.      *)
(***************************************************************************)
NextWindow ==
    \/ AddVideoInputDevice
    \/ AddNullRender
    \/ AddDefaultRender
    \/ PreparePreviewGraph
    \/ RemoveFilters
    \/ UpdateWindow

SpecWindow == Init /\ [][NextWindow]_vars

(***************************************************************************)
(* Properties.  An operation's contract is stated on the frame the         *)
(* operation leaves when it is called in the current state, for every      *)
(* position f at which the environment may make a native call fail.        *)
(***************************************************************************)
Link(from, i, to, j) == <<(<<from, i>>), (<<to, j>>)>>

\* The connections a call added to the native graph.
Made(r) == r.conns \ conns

\* C1: prepare_preview_graph fails by assertion, before any native call and
\* with is_recording unchanged, unless a video_input and a render are
\* registered.  A call that returns has made exactly one connection, video
\* input output 0 -> render input 0, when no sample grabber is registered, and
\* exactly two, video input -> sample grabber -> render (no direct link to the
\* render), when one is, in which case the callback's image resolution is that
\* of the grabber's connected media type; and is_recording is False.
C1_PreviewContract ==
    \A f \in FaultPoints(prepare_preview_graph(Frame(0))) :
        LET r == prepare_preview_graph(Frame(f))
            vi == filters["video_input"]
            sg == filters["sample_grabber"]
            rd == filters["render"]
        IN  /\ (vi = None \/ rd = None) =>
                  /\ r.exc = "AssertionError"
                  /\ r.n = 0
                  /\ r.conns = conns
                  /\ r.is_recording = is_recording
            /\ r.exc = "AssertionError" => (vi = None \/ rd = None)
            /\ Running(r) =>
                  /\ r.is_recording = FALSE
                  /\ conns \subseteq r.conns
                  /\ sg = None =>
                        /\ Made(r) = {Link(vi, 0, rd, 0)}
                        /\ r.n = 1
                  /\ sg # None =>
                        /\ Made(r) = {Link(vi, 0, sg, 0), Link(sg, 0, rd, 0)}
                        /\ Link(vi, 0, rd, 0) \notin r.conns
                        /\ r.image_resolution = DeviceResolution(vi[2])
                        /\ r.image_resolution # 0

\* C1 witness: a preview graph through a sample grabber was prepared; the
\* callback holds the resolution of the connected device.
C1_Witness ==
    /\ filters["sample_grabber"] # None
    /\ filters["video_input"] # None
    /\ filters["render"] # None
    /\ Link(filters["video_input"], 0, filters["sample_grabber"], 0) \in conns
    /\ Link(filters["sample_grabber"], 0, filters["render"], 0) \in conns
    /\ image_resolution = DeviceResolution(filters["video_input"][2])
    /\ is_recording = FALSE

\* The output pins a recording graph can take its streams from.
SourcePins(vi, tee) == {<<x, i>> : x \in {vi, tee} \ {None}, i \in 0..1}

\* C2: prepare_recording_graph fails by assertion, before any native call,
\* unless video_input, render and muxer are registered.  A call that returns
\* has set is_recording and made, apart from the link feeding a smart tee,
\* exactly these connections.  ASF: capture pin -> muxer input 1, audio input
\* output -> muxer input 0, preview pin -> render input, none of them touching
\* a compressor.  Otherwise: capture pin -> video compressor input, video
\* compressor output -> muxer input 0, preview pin -> render input and, exactly
\* when an audio input is registered, audio input output -> audio compressor
\* input and audio compressor output -> muxer input 1, the muxer's pin list
\* having been reloaded (it then holds a second pin, missing before on an
\* AVI mux).
C2_RecordingContract ==
    \A f \in FaultPoints(prepare_recording_graph(Frame(0))) :
        LET r == prepare_recording_graph(Frame(f))
            vi == filters["video_input"]
            rd == filters["render"]
            mux == filters["muxer"]
            ai == filters["audio_input"]
            vc == filters["video_compressor"]
            ac == filters["audio_compressor"]
            tee == r.filters["smart_tee"]
            links == {c \in Made(r) : c[2][1] # tee}
        IN  /\ (vi = None \/ rd = None \/ mux = None) =>
                  /\ r.exc = "AssertionError"
                  /\ r.n = 0
                  /\ r.conns = conns
            /\ Running(r) =>
                  /\ r.is_recording = TRUE
                  /\ conns \subseteq r.conns
                  /\ \E cap, prev \in SourcePins(vi, tee) :
                        /\ cap # prev
                        /\ links =
                             IF recording_format = "ASF"
                             THEN { <<cap, <<mux, 1>> >>, Link(ai, 0, mux, 0),
                                    <<prev, <<rd, 0>> >> }
                             ELSE { <<cap, <<vc, 0>> >>, Link(vc, 0, mux, 0),
                                    <<prev, <<rd, 0>> >> }
                                  \cup (IF ai # None
                                        THEN {Link(ai, 0, ac, 0), Link(ac, 0, mux, 1)}
                                        ELSE {})
                  /\ recording_format = "ASF" =>
                        \A c \in Made(r) :
                            {c[1][1], c[2][1]} \cap {vc, ac} \subseteq {None}
                  /\ (recording_format # "ASF" /\ ai # None) =>
                        /\ r.mux_in_pins >= 2
                        /\ mux[3] = "AVI" => mux_in_pins = 1

\* C2 witness: an AVI recording graph with sound was prepared.
C2_Witness ==
    /\ is_recording
    /\ recording_format = "AVI"
    /\ filters["audio_input"] # None
    /\ Link(filters["video_compressor"], 0, filters["muxer"], 0) \in conns
    /\ Link(filters["audio_compressor"], 0, filters["muxer"], 1) \in conns
    /\ mux_in_pins = 2

\* The device's first unconnected output pin of a category, as the native
\* FindPin sees it.
Offered(vi, category) ==
    LET pins == DevicePins(vi[2])
        free == {i \in 1..Len(pins) :
                    pins[i] = category /\ \A c \in conns : c[1] # <<vi, i - 1>>}
    IN  IF free = {} THEN NoPin
        ELSE <<vi, (CHOOSE i \in free : \A j \in free : i <= j) - 1>>

\* Where prepare_recording_graph takes the capture stream to.
CaptureTarget ==
    IF recording_format = "ASF" THEN <<filters["muxer"], 1>>
    ELSE <<filters["video_compressor"], 0>>

\* C3 as stated: a call of prepare_recording_graph that passes its assertions
\* adds a smart tee to the registry and the native graph if and only if the
\* video input does not offer both an unconnected preview pin and an
\* unconnected capture pin.
C3_TeeIffNotBothPins ==
    LET r == prepare_recording_graph(Frame(0))
        vi == filters["video_input"]
        added == /\ r.filters["smart_tee"] # None
                 /\ r.filters["smart_tee"] # filters["smart_tee"]
                 /\ r.filters["smart_tee"] \in r.graph \ graph
        both == Offered(vi, "Preview") # NoPin /\ Offered(vi, "Capture") # NoPin
    IN  (vi # None /\ filters["render"] # None /\ filters["muxer"] # None) =>
            (added <=> ~both)

\* C3 amended: the preview pin is looked up first, then the capture pin; a
\* pin is found when the device offers it unconnected and the lookup did not
\* fail.  Both found: no smart tee is built, registry and native graph keep
\* their filters, and a call that returns has connected the device's own
\* capture and preview pins.  Otherwise, when a smart tee is registered
\* already, the call fails by assertion and changes nothing; when none is, a
\* call that returns has registered a smart tee, added it to the native graph,
\* connected the pin found (the capture pin if found, else the preview pin) to
\* its input and used its output 0 as capture pin and its output 1 as preview
\* pin; with neither pin found the call does not return.
C3_SmartTee ==
    \A f \in FaultPoints(prepare_recording_graph(Frame(0))) :
        LET r == prepare_recording_graph(Frame(f))
            vi == filters["video_input"]
            rd == filters["render"]
            tee == r.filters["smart_tee"]
            preview == IF f = 1 THEN NoPin ELSE Offered(vi, "Preview")
            capture == IF f = 2 THEN NoPin ELSE Offered(vi, "Capture")
            both == preview # NoPin /\ capture # NoPin
        IN  (vi # None /\ rd # None /\ filters["muxer"] # None) =>
              /\ both =>
                    /\ r.filters = filters
                    /\ r.graph = graph
                    /\ Running(r) =>
                          /\ <<capture, CaptureTarget>> \in Made(r)
                          /\ <<preview, <<rd, 0>> >> \in Made(r)
              /\ (~both /\ filters["smart_tee"] # None) =>
                    /\ r.exc = "AssertionError"
                    /\ r.filters = filters
                    /\ r.graph = graph
                    /\ r.conns = conns
              /\ (~both /\ filters["smart_tee"] = None) =>
                    /\ Running(r) =>
                          /\ tee # None
                          /\ tee \in r.graph \ graph
                          /\ <<(IF capture # NoPin THEN capture ELSE preview),
                               <<tee, 0>> >> \in Made(r)
                          /\ <<(<<tee, 0>>), CaptureTarget>> \in Made(r)
                          /\ Link(tee, 1, rd, 0) \in Made(r)
                    /\ (preview = NoPin /\ capture = NoPin) => ~Running(r)

\* C3 witness: a recording graph was prepared through a smart tee fed by the
\* capture pin of a device without a preview pin.
C3_Witness ==
    /\ is_recording
    /\ filters["smart_tee"] # None
    /\ filters["video_input"] # None
    /\ DevicePins(filters["video_input"][2]) = <<"Capture">>
    /\ Link(filters["video_input"], 0, filters["smart_tee"], 0) \in conns
    /\ Link(filters["smart_tee"], 1, filters["render"], 0) \in conns

\* P holds of whatever the operation op leaves when called in the current
\* state, for every native call of it the environment may make fail.
Holds(P(_), op(_)) ==
    \A f \in FaultPoints(op(Frame(0))) : LET r == op(Frame(f)) IN P(r)

\* P holds of the outcome of every operation called in the current state.
ForAllOutcomes(P(_)) ==
    /\ \A i \in 0..2 : Holds(P, LAMBDA s : add_filter(s, "video_input", i))
    /\ \A t \in {"audio_input", "video_compressor", "audio_compressor"} :
          \A i \in 0..1 : Holds(P, LAMBDA s : add_filter(s, t, i))
    /\ \A c \in RenderClsids : Holds(P, LAMBDA s : add_filter(s, "render", c))
    /\ Holds(P, add_sample_grabber)
    /\ \A f \in 0..2, filename \in Filenames :
          MuxCallAllowed(f) =>
              LET r == add_file_writer_and_muxer(f, filename) IN P(r)
    /\ Holds(P, prepare_preview_graph)
    /\ Holds(P, prepare_recording_graph)
    /\ Holds(P, remove_filters)
    /\ Holds(P, remove_all_filters_but_video_source)
    /\ Holds(P, set_properties)
    /\ Holds(P, grab_frame)
    /\ Holds(P, LAMBDA s : media_control(s, "Run", "Running"))
    /\ Holds(P, LAMBDA s : media_control(s, "Pause", "Paused"))
    /\ Holds(P, LAMBDA s : media_control(s, "Stop", "Stopped"))
    /\ Holds(P, LAMBDA s : get_available_filters(s, "VideoInputDevice").s)

\* The native calls whose failure the code catches: FindPin in
\* Filter.find_pin, QueryInterface(IVideoWindow) in Render.__init__, and the
\* calls inside show_properties.
SwallowedCalls ==
    {"FindPin", "QueryInterface(IVideoWindow)",
     "QueryInterface(ISpecifyPropertyPages)", "GetPages"}

\* C4 as stated: an operation during which a native call failed does not
\* return normally.
NoErrorSwallowed(r) == r.failed # {} => ~Running(r)

C4_NoErrorSwallowed == ForAllOutcomes(NoErrorSwallowed)

\* C4 amended: an operation during which a native call failed, other than a
\* call of SwallowedCalls, ends with COMError reaching its caller; an
\* operation that returns normally, or ends with another exception, saw only
\* failures of SwallowedCalls.
ErrorsSurface(r) ==
    /\ r.failed \ SwallowedCalls # {} => r.exc = "COMError"
    /\ r.exc # "COMError" => r.failed \subseteq SwallowedCalls

C4_ErrorsSurface == ForAllOutcomes(ErrorsSurface)

\* C4 witness: prepare_recording_graph, called where the device lacks a
\* preview pin, sees FindPin fail and goes on; a Connect that fails ends it
\* with COMError.
C4_Witness ==
    /\ filters["video_input"] # None
    /\ filters["muxer"] # None
    /\ \E f \in FaultPoints(prepare_recording_graph(Frame(0))) :
          LET r == prepare_recording_graph(Frame(f)) IN
          /\ r.failed = {"FindPin", "Connect"}
          /\ r.exc = "COMError"
          /\ r.filters["smart_tee"] # None
    /\ filters["render"] = RenderOf(FALSE)

\* C5 as stated (its first sentence): grab_frame returns True and arms the
\* request if and only if a sample grabber is registered; otherwise it returns
\* False and changes no state.
C5_GrabFrameArms ==
    LET r == grab_frame(Frame(0))
        result == grab_frame_result(Frame(0))
    IN  /\ filters["sample_grabber"] # None =>
              result = <<"True">> /\ r.keep_photo = TRUE
        /\ filters["sample_grabber"] = None =>
              result = <<"False">> /\ r = Frame(0)

\* C6: while the sample grabber is connected and the graph keeps running, a
\* grab_frame call that returned True is followed by an invocation of the
\* user callback, whatever the interleaving of the call with the test, the
\* clearing and the invocation inside BufferCB.
C6_RequestAnswered ==
    []((unanswered /\ [](state = "Running")) => <>(~unanswered))

\* C6 witness: grab_frame armed the flag again between BufferCB's clearing of
\* it and the user callback.
C6_Witness ==
    /\ bcb_pc = "invoke"
    /\ keep_photo
    /\ unanswered
    /\ state = "Running"
    /\ n_grab_true >= 2

\* C7: get_available_filters gives the names of the category's devices in
\* enumeration order.  get_filter_by_index with 0 <= index < n gives the
\* index-th enumerated device and the name get_available_filters lists at that
\* index; with any other index it ends with an error; whenever it returns a
\* device, it is the index-th one.  (Unless a native call fails, which ends
\* either query with an error.)
C7_EnumerationAgrees ==
    query.op # "none" =>
        LET list == devices[query.category]
            n == Len(list)
            index == query.index
        IN  /\ (query.op = "get_available_filters" /\ query.fault = 0) =>
                  /\ query.exc = ""
                  /\ query.names = [i \in 1..n |-> list[i][2]]
            /\ query.op = "get_filter_by_index" =>
                  /\ (0 <= index /\ index < n /\ query.fault = 0) =>
                        /\ query.exc = ""
                        /\ query.dev = list[index + 1]
                        /\ query.dev[2] =
                             get_available_filters(Frame(0), query.category).val[index + 1]
                  /\ (index < 0 \/ index >= n) => query.exc # ""
                  /\ query.exc # "" => query.dev = NullMoniker
                  /\ query.exc = "" => query.dev = list[index + 1]
            /\ query.fault > 0 => query.exc = "COMError"

\* C7 witness: the last of three cameras, one that shares its name with
\* another, was selected by index.
C7_Witness ==
    /\ query.op = "get_filter_by_index"
    /\ query.category = "VideoInputDevice"
    /\ Len(devices["VideoInputDevice"]) = 3
    /\ query.index = 2
    /\ query.exc = ""
    /\ query.dev = devices["VideoInputDevice"][3]
    /\ query.dev[2] = devices["VideoInputDevice"][1][2]

\* The add operations built on __add_filter, by the type they register.
AddedBy(P(_), t) ==
    CASE t = "video_input" ->
             \A i \in 0..2 : Holds(P, LAMBDA s : add_filter(s, t, i))
      [] t \in {"audio_input", "video_compressor", "audio_compressor"} ->
             \A i \in 0..1 : Holds(P, LAMBDA s : add_filter(s, t, i))
      [] t = "sample_grabber" -> Holds(P, add_sample_grabber)
      [] t = "render" ->
             \A c \in RenderClsids : Holds(P, LAMBDA s : add_filter(s, t, c))

AddTypes ==
    {"video_input", "audio_input", "video_compressor", "audio_compressor",
     "sample_grabber", "render"}

\* C8: an add operation called while a filter of its type is registered
\* fails by assertion before any native call and leaves registry, native graph
\* and connections as they are; it fails by assertion in no other case; and it
\* registers a filter only under a type that had none.  Nothing but the two
\* removals changes or drops what is registered under one of these types.
C8_AddAsserts ==
    /\ \A t \in AddTypes :
          LET Asserts(r) ==
                  /\ filters[t] # None =>
                        /\ r.exc = "AssertionError"
                        /\ r.n = 0
                        /\ r.filters = filters
                        /\ r.graph = graph
                        /\ r.conns = conns
                  /\ r.exc = "AssertionError" => filters[t] # None
                  /\ r.filters[t] # filters[t] => filters[t] = None
                  /\ \A u \in AddTypes \ {t} : r.filters[u] = filters[u]
          IN  AddedBy(Asserts, t)
    /\ LET Keeps(r) == \A t \in AddTypes : r.filters[t] = filters[t] IN
       /\ Holds(Keeps, prepare_preview_graph)
       /\ Holds(Keeps, prepare_recording_graph)
       /\ Holds(Keeps, set_properties)
       /\ Holds(Keeps, grab_frame)
       /\ \A f \in 0..2, filename \in Filenames :
             MuxCallAllowed(f) => Keeps(add_file_writer_and_muxer(f, filename))

\* C8 witness: a null render is registered and in the graph; adding another
\* render fails by assertion.
C8_Witness ==
    /\ filters["render"] = RenderOf(FALSE)
    /\ filters["render"] \in graph
    /\ add_filter(Frame(0), "render", "VideoMixingRenderer").exc = "AssertionError"
    /\ add_filter(Frame(0), "render", "VideoMixingRenderer").filters = filters

\* The file name's last path component ends in a dot followed by the letters
\* w, m, v in either case, and has a character other than a dot before that
\* dot.
HasWmvExtension(p) ==
    LET k == Len(p) - 3 IN
    /\ k >= 2
    /\ p[k] = "."
    /\ p[k + 1] \in {"w", "W"}
    /\ p[k + 2] \in {"m", "M"}
    /\ p[k + 3] \in {"v", "V"}
    /\ \E j \in 1..(k - 1) :
          /\ p[j] # "."
          /\ \A i \in j..(k - 1) : p[i] \notin {"/", "\\"}

\* C9: add_file_writer_and_muxer sets recording_format to ASF when the file
\* name has the extension .wmv in any case and to AVI otherwise; when it
\* returns, the muxer registered is the one the capture builder made for the
\* file, of that format.  While a muxer is registered recording_format is one
\* of the two, and a prepare_recording_graph that returns has taken the ASF branch
\* (audio input -> muxer input 0) exactly when the format is ASF and the AVI
\* branch (video compressor -> muxer input 0) exactly when it is AVI.
C9_FormatByExtension ==
    /\ \A f \in 0..2, filename \in Filenames :
          MuxCallAllowed(f) =>
              LET r == add_file_writer_and_muxer(f, filename)
                  format == IF HasWmvExtension(filename) THEN "ASF" ELSE "AVI"
              IN  /\ r.recording_format = format
                  /\ Running(r) =>
                        /\ r.filters["muxer"] = <<"muxer", FreshMuxId(Frame(0)), format>>
                        /\ r.filters["muxer"] \in r.graph \ graph
    /\ filters["muxer"] # None =>
          /\ recording_format \in {"ASF", "AVI"}
          /\ \A f \in FaultPoints(prepare_recording_graph(Frame(0))) :
                LET r == prepare_recording_graph(Frame(f))
                    mux == filters["muxer"]
                    asf == Link(filters["audio_input"], 0, mux, 0) \in Made(r)
                    avi == Link(filters["video_compressor"], 0, mux, 0) \in Made(r)
                IN  Running(r) =>
                        /\ asf <=> recording_format = "ASF"
                        /\ avi <=> recording_format = "AVI"

\* C9 witness: a file name gave an ASF muxer (as the mixed-case a.WmV does),
\* and the recording graph was prepared through the ASF branch.
C9_Witness ==
    /\ recording_format = "ASF"
    /\ filters["muxer"] # None
    /\ filters["muxer"][3] = "ASF"
    /\ FormatOf(<<"a", ".", "W", "m", "V">>) = "ASF"
    /\ is_recording
    /\ Link(filters["audio_input"], 0, filters["muxer"], 0) \in conns

\* C10 as stated: remove_all_filters_but_video_source fails, before any
\* native call and changing nothing, when no video input is registered; a call
\* that returns leaves exactly the video input in the native graph, exactly
\* {video_input: the filter registered before} in the registry, and
\* is_recording and recording_format as they were.
C10_OnlyVideoSourceLeft ==
    \A f \in FaultPoints(remove_all_filters_but_video_source(Frame(0))) :
        LET r == remove_all_filters_but_video_source(Frame(f))
            vi == filters["video_input"]
        IN  /\ vi = None =>
                  /\ ~Running(r)
                  /\ r.n = 0
                  /\ r.filters = filters
                  /\ r.graph = graph
            /\ Running(r) =>
                  /\ r.graph = {vi}
                  /\ r.filters = [NoFilters EXCEPT !["video_input"] = vi]
                  /\ r.is_recording = is_recording
                  /\ r.recording_format = recording_format

\* The state a returned call leaves, as the frame of the next call.
Afterwards(r) == [r EXCEPT !.n = 0, !.failAt = 0, !.failed = {}]

\* C11: remove_filters, when no native call fails, returns after one
\* RemoveFilter, Reset and Next per filter of the native graph (two calls
\* open the enumeration); every call of it that returns leaves the native
\* graph without filter and connection and the registry empty, so that no add
\* operation called next fails its assertion; is_recording and
\* recording_format are as they were.
C11_RemoveFiltersEmpties ==
    /\ Running(remove_filters(Frame(0)))
    /\ remove_filters(Frame(0)).n = 2 + 3 * Cardinality(graph)
    /\ \A f \in FaultPoints(remove_filters(Frame(0))) :
          LET r == remove_filters(Frame(f)) IN
          Running(r) =>
              /\ r.graph = {}
              /\ r.conns = {}
              /\ r.filters = NoFilters
              /\ r.is_recording = is_recording
              /\ r.recording_format = recording_format
              /\ \A t \in AddTypes :
                    LET NoAssert(a) == a.exc # "AssertionError" IN
                    CASE t = "video_input" ->
                             \A i \in 0..2 : NoAssert(add_filter(Afterwards(r), t, i))
                      [] t \in {"audio_input", "video_compressor", "audio_compressor"} ->
                             \A i \in 0..1 : NoAssert(add_filter(Afterwards(r), t, i))
                      [] t = "sample_grabber" -> NoAssert(add_sample_grabber(Afterwards(r)))
                      [] t = "render" ->
                             \A c \in RenderClsids :
                                 NoAssert(add_filter(Afterwards(r), t, c))

\* C11 witness: remove_filters has emptied a recording graph: nothing is
\* registered, the native graph is empty, and is_recording and the ASF format
\* of the recording are still set.
C11_Witness ==
    /\ filters = NoFilters
    /\ graph = {}
    /\ is_recording
    /\ recording_format = "ASF"

\* What update_window may be asked: a width, a height, and how the two double
\* products round.
WindowRequests == (0..MaxExtent) \X (0..MaxExtent) \X (BOOLEAN \X BOOLEAN)

Least(a, b) == IF a < b THEN a ELSE b

\* The window is at (0, 0); its size is the whole part of img * scale in
\* each dimension (or one less where the double product falls below a whole
\* exact product), scale being the least of width / img_w, height / img_h
\* and 1; it exceeds neither what was asked nor the image.
PlacedFor(w, width, height, img) ==
    LET q == Scale(width, height, img)
        Whole(x, i) == \/ x * q[2] <= i * q[1] /\ i * q[1] < (x + 1) * q[2]
                       \/ (x + 1) * q[2] = i * q[1]
    IN  /\ w # NoWindow
        /\ w[1] = 0 /\ w[2] = 0
        /\ ~Less(<<width, img[1]>>, q) /\ ~Less(<<height, img[2]>>, q)
        /\ ~Less(<<1, 1>>, q)
        /\ q \in {<<width, img[1]>>, <<height, img[2]>>, <<1, 1>>}
        /\ Whole(w[3], img[1]) /\ Whole(w[4], img[2])
        /\ w[3] <= Least(width, img[1])
        /\ w[4] <= Least(height, img[2])

\* C12 as stated: update_window called with no render registered makes no
\* native call and changes nothing; called with a render registered it
\* returns, when no native call fails, with the render window at (0, 0) in
\* the size the video input's current format and the request give, which is
\* never wider than min(width, img_w) nor taller than min(height, img_h).
C12_UpdateWindow ==
    \A a \in WindowRequests :
        LET r == update_window(Frame(0), a[1], a[2], a[3]) IN
        /\ filters["render"] = None => r = Frame(0)
        /\ filters["render"] # None =>
              /\ Running(r)
              /\ PlacedFor(r.window, a[1], a[2],
                           DeviceFormat(filters["video_input"][2]))

\* Whenever update_window returns with a render registered, the window is
\* placed as C12 says, whatever native call the environment made fail.
C12_PlacedWhenReturned ==
    \A a \in WindowRequests :
        \A f \in FaultPoints(update_window(Frame(0), a[1], a[2], a[3])) :
            LET r == update_window(Frame(f), a[1], a[2], a[3]) IN
            /\ filters["render"] = None => r = Frame(f)
            /\ (filters["render"] # None /\ Running(r)) =>
                  PlacedFor(r.window, a[1], a[2],
                            DeviceFormat(filters["video_input"][2]))

\* update_window fails in two cases only when no native call fails: the
\* render has no video window (AttributeError), or no video input is
\* registered (KeyError).
C12_FailuresOfUpdateWindow ==
    \A a \in WindowRequests :
        LET r == update_window(Frame(0), a[1], a[2], a[3]) IN
        ~Running(r) =>
            \/ r.exc = "KeyError" /\ filters["video_input"] = None
            \/ /\ r.exc = "AttributeError"
               /\ filters["render"] = RenderOf(FALSE)
               /\ filters["video_input"] # None

\* C13: is_recording is True exactly when the most recent prepare_* call that
\* returned was prepare_recording_graph (False when none has): a
\* prepare_preview_graph that returns leaves it False, a
\* prepare_recording_graph that returns leaves it True, a prepare_* call that
\* fails leaves it as it was, and no other operation changes it.
C13_RecordingFlag ==
    /\ is_recording <=> recorded_last
    /\ Holds(LAMBDA r : IF Running(r) THEN ~r.is_recording
                        ELSE r.is_recording = is_recording,
             prepare_preview_graph)
    /\ Holds(LAMBDA r : IF Running(r) THEN r.is_recording
                        ELSE r.is_recording = is_recording,
             prepare_recording_graph)
    /\ LET Keeps(r) == r.is_recording = is_recording IN
       /\ \A t \in AddTypes : AddedBy(Keeps, t)
       /\ \A f \in 0..2, filename \in Filenames :
             MuxCallAllowed(f) => Keeps(add_file_writer_and_muxer(f, filename))
       /\ Holds(Keeps, remove_filters)
       /\ Holds(Keeps, remove_all_filters_but_video_source)
       /\ Holds(Keeps, grab_frame)
       /\ Holds(Keeps, LAMBDA s : media_control(s, "Run", "Running"))
       /\ Holds(Keeps, LAMBDA s : media_control(s, "Pause", "Paused"))
       /\ Holds(Keeps, LAMBDA s : media_control(s, "Stop", "Stopped"))

\* C13 witness: a recording graph was prepared, and a prepare_preview_graph
\* called now fails at its native Connect and leaves is_recording True.
C13_Witness ==
    /\ is_recording
    /\ recorded_last
    /\ filters["video_input"] # None
    /\ filters["render"] # None
    /\ ~Running(prepare_preview_graph(Frame(1)))
    /\ prepare_preview_graph(Frame(1)).failed = {"Connect"}

\* C14 as stated: an add operation that fails leaves the registry as it was,
\* whichever step failed (the native AddFilter included); and every filter
\* the registry holds under a type other than muxer is in the native graph.
C14_FailedAddKeepsRegistry ==
    /\ LET Kept(r) == ~Running(r) => r.filters = filters IN
       /\ \A t \in AddTypes : AddedBy(Kept, t)
       /\ \A f \in 0..2, filename \in Filenames :
             MuxCallAllowed(f) => Kept(add_file_writer_and_muxer(f, filename))
    /\ \A t \in FilterType \ {"muxer"} :
          filters[t] # None => filters[t] \in graph

\* A filter the selected format requires is not registered: the audio input
\* for ASF, the video compressor otherwise, the audio compressor otherwise
\* when an audio input is registered.
RequiredMissing ==
    IF recording_format = "ASF"
    THEN filters["audio_input"] = None
    ELSE \/ filters["video_compressor"] = None
         \/ filters["audio_input"] # None /\ filters["audio_compressor"] = None

\* C15 as stated: a prepare_recording_graph that passes its assertions and
\* fails on the look-up of a filter its format requires has made no
\* connection, has added no smart tee to the registry or to the native
\* graph, and has left is_recording as it was.
C15_FailsBeforeChanging ==
    (/\ filters["video_input"] # None
     /\ filters["render"] # None
     /\ filters["muxer"] # None
     /\ RequiredMissing) =>
        \A f \in FaultPoints(prepare_recording_graph(Frame(0))) :
            LET r == prepare_recording_graph(Frame(f)) IN
            r.exc = "KeyError" =>
                /\ r.conns = conns
                /\ r.filters = filters
                /\ r.graph = graph
                /\ r.is_recording = is_recording

====
